---------------------------- MODULE Spec2Model ----------------------------
(***************************************************************************)
(* Model of the virtual-persons repository:                                *)
(*   - VirtualPersons.js : the generation pipeline (class VirtualPersons)  *)
(*   - imageCard.vue     : the ImageCard configuration component           *)
(* Both live in src/unnamed/part_000.  The pipeline is a sequence of       *)
(* awaited calls; every await of an external adapter is one step whose     *)
(* outcome (a value or a rejection) is chosen by the environment.          *)
(***************************************************************************)
EXTENDS Integers, Sequences, FiniteSets, TLC

(***************************************************************************)
(* Bounds of the model.                                                    *)
(***************************************************************************)
\* longest list the text adapter returns / a caller passes to a stage
MaxList == 2
\* most records the persistence adapter holds
MaxRecords == 2

(***************************************************************************)
(* Values.                                                                 *)
(***************************************************************************)
\* JavaScript undefined (a missing property)
Undefined == "undefined"
\* a missing nameEncoded
NoEncoded == << >>
\* person names, as their UTF-8 bytes: "Al" and "Bob"
Names == { <<65, 108>>, <<66, 111, 98>> }
\* project identifiers (project._id)
Projects == {1, 2}
\* what the text adapter answers to a biography prompt
Biographies == { [biography |-> "bio1", status |-> "status1"],
                 [biography |-> "bio2", status |-> "status2"] }
\* the URL the image backend returns
RemoteUrl == "remote"
\* JavaScript truthiness of a string-or-undefined value
Truthy(v) == v \notin {Undefined, ""}

\* all sequences over S of length at most n
RECURSIVE SeqUpTo(_, _)
SeqUpTo(S, n) ==
  IF n = 0 THEN { << >> }
  ELSE LET shorter == SeqUpTo(S, n - 1)
           longest == { t \in shorter : Len(t) = n - 1 }
       IN  shorter \cup { Append(s, e) : s \in longest, e \in S }
\* the elements of a sequence
Range(s) == { s[k] : k \in DOMAIN s }

(***************************************************************************)
(* encodeName: Buffer.from(name).toString('base64').  A base64 character   *)
(* is modelled by its index in the base64 alphabet, '=' by 64.             *)
(***************************************************************************)
Pad == 64

RECURSIVE Base64(_)
Base64(b) ==
  IF Len(b) = 0 THEN << >>
  ELSE IF Len(b) = 1 THEN
    << b[1] \div 4, (b[1] % 4) * 16, Pad, Pad >>
  ELSE IF Len(b) = 2 THEN
    << b[1] \div 4, (b[1] % 4) * 16 + b[2] \div 16, (b[2] % 16) * 4, Pad >>
  ELSE
    << b[1] \div 4, (b[1] % 4) * 16 + b[2] \div 16,
       (b[2] % 16) * 4 + b[3] \div 64, b[3] % 64 >>
    \o Base64(SubSeq(b, 4, Len(b)))

encodeName(name) == Base64(name)

(***************************************************************************)
(* IEEE-754 binary64 arithmetic of line 286,                               *)
(*   Math.floor(Math.random() * (max - min) + min).                        *)
(* A non-negative double x below 2^4 that is a multiple of 2^-53 is the    *)
(* natural number N = x * 2^53, kept in two limbs N = hi * 2^27 + lo.      *)
(* Math.random() returns k / 2^53 for a 53-bit k (V8; any double in [0,1)  *)
(* is allowed by ECMAScript).                                              *)
(***************************************************************************)
\* bits in a double's significand
MantissaBits == 53
\* bits in the low limb
LowBits == MantissaBits \div 2 + 1
LowBase == 2^LowBits
HighBits == MantissaBits - LowBits

Norm(h, l) == [hi |-> h + l \div LowBase, lo |-> l % LowBase]
\* the number of bits of h
RECURSIVE BitLen(_)
BitLen(h) == IF h = 0 THEN 0 ELSE 1 + BitLen(h \div 2)

\* round-to-nearest, ties-to-even, to a 53-bit significand
RoundToDouble(x) ==
  LET s == BitLen(x.hi) - HighBits
  IN  IF s <= 0 THEN x
      ELSE LET unit == 2^s
               rem  == x.lo % unit
               half == unit \div 2
               odd  == (x.lo \div unit) % 2 = 1
               up   == rem > half \/ (rem = half /\ odd)
           IN  Norm(x.hi, (x.lo - rem) + (IF up THEN unit ELSE 0))

\* a * d for a double a and an integer d >= 0, rounded
Times(a, d) == RoundToDouble(Norm(a.hi * d, a.lo * d))
\* a + n for a double a and an integer n >= 0, rounded
Plus(a, n) == RoundToDouble(Norm(a.hi + n * 2^HighBits, a.lo))
\* Math.floor
Floor(a) == a.hi \div 2^HighBits

\* const number = Math.floor(Math.random() * (max - min) + min)
RandomNumber(min, max, r) == Floor(Plus(Times(r, max - min), min))

\* the values of Math.random() the model draws: 0, 2^-53, 1/2, 1/2 + 2^-53,
\* 1 - 2^-52, 1 - 2^-53
RandomDraws ==
  { [hi |-> 0, lo |-> 0], [hi |-> 0, lo |-> 1],
    [hi |-> 2^(HighBits - 1), lo |-> 0], [hi |-> 2^(HighBits - 1), lo |-> 1],
    [hi |-> 2^HighBits - 1, lo |-> LowBase - 2],
    [hi |-> 2^HighBits - 1, lo |-> LowBase - 1] }

\* (min, max) of the calls of init the model makes
MinMaxPairs == { <<2, 3>> }

(***************************************************************************)
(* Person objects.  A field the object does not have is Undefined (id and  *)
(* projectId: 0, nameEncoded: NoEncoded).  A candidate that is a plain     *)
(* string has only its name.  link, userId and projectName, which create   *)
(* also sets, are functions of name and of the instance and are left out.  *)
(***************************************************************************)
Person(name, biography, status) ==
  [ name |-> name, biography |-> biography, status |-> status, id |-> 0,
    headshot |-> Undefined, nameEncoded |-> NoEncoded, projectId |-> 0 ]
\* a candidate as the names stage returns it: a string
NameOnly(name) == Person(name, Undefined, Undefined)
\* a candidate that already carries biography and status
Resolved(name) == Person(name, "bio1", "status1")

\* the candidates a caller passes to resolvePersonsData: the names, and an
\* object that carries its data already
Candidates == { NameOnly(n) : n \in Names } \cup { Resolved(<<65, 108>>) }
CandidateLists == SeqUpTo(Candidates, MaxList)
\* the responses of the names request: lists of names
NameLists == SeqUpTo(Names, MaxList)
\* the project of an instance in a stage where the project takes no part
AnyProject == CHOOSE project \in Projects : TRUE

\* One call of an external adapter, as the log keeps it: the adapter's
\* operation, the person it is about (name, _id), the value passed or
\* returned (the URL of an image request or an upload, the headshot of a
\* patch), and whether it returned or threw.
Call(api, name, id, value, ok) ==
  [ api |-> api, name |-> name, id |-> id, value |-> value,
    outcome |-> IF ok THEN "returned" ELSE "threw" ]
NoName == << >>

(***************************************************************************)
(* State.                                                                  *)
(***************************************************************************)
VARIABLES
  storage,              \* the records of VirtualPersonsService; _id = index
  storageAtCall,        \* the records when the running call began
  op,                   \* the method the caller invoked
  pc,                   \* where that call stands
  projectId,            \* this.projectId
  minArg, maxArg,       \* init's min and max
  number,               \* getRandomVirtualPersons' number, while it is in scope
  randomVirtualPersons, \* the names the names request returned
  virtualPersons,       \* resolvePersonsData's persons
  personsData,          \* resolvePersonsData's result, savePersonsData's input
  createdPersons,       \* savePersonsData's result
  savedPersons,         \* resolvePersonImages' personsData (mutated in place)
  idx,                  \* the loop position of the running stage
  result,               \* "running" | "returned" | "threw"
  error,                \* what was thrown
  calls,                \* the adapter calls of this run, in order
  warned,               \* console.warn('not enough persons') was reached
  \* ---- ImageCard ----
  cardName,             \* card.selections.settings.generateImageBy.name
  cardParams,           \* card.selections.settings.generateImageBy.params
  cardHeading,          \* card.selections.heading
  imageParams,          \* data().imageParams
  selected,             \* the radio the last user action picked, if any
  events                \* the 'change' events the last user action emitted

pvars == << storage, storageAtCall, op, pc, projectId, minArg, maxArg, number,
            randomVirtualPersons,
            virtualPersons, personsData, createdPersons, savedPersons, idx,
            result, error, calls, warned >>
cvars == << cardName, cardParams, cardHeading, imageParams, selected, events >>
vars == << pvars, cvars >>

(***************************************************************************)
(* The persistence adapter (VirtualPersonsService).                        *)
(***************************************************************************)
\* find({ query: { nameEncoded: { $in: encodedNames } }, paginate: false })
find(records, encodedNames) ==
  SelectSeq(records, LAMBDA rec : rec.nameEncoded \in encodedNames)

\* create(data): the stored record, with its identifier
create(records, data) == [ data EXCEPT !.id = Len(records) + 1 ]

\* patch(id, data): the fields data has overwrite the record's
patch(records, id, data) ==
  [ records EXCEPT ![id] =
      [ data EXCEPT !.id = id,
                    !.headshot = IF data.headshot = Undefined
                                 THEN records[id].headshot ELSE data.headshot ] ]

\* uploadImageStorageFromUrl(imageUrl)
uploadImageStorageFromUrl(imageUrl) == "stored:" \o imageUrl

\* a list walked from its end
ForOfReversed(list, i) == list[Len(list) + 1 - i]

\* for (const x of list): the item of the i-th pass
ForOf(list, i) == list[i]

\* a rejection that is dropped: the call returns normally
Swallow(e) == /\ result' = "returned"
              /\ error' = Undefined
              /\ pc' = "done"

(***************************************************************************)
(* How a call ends.                                                        *)
(***************************************************************************)
Idle == pc = "idle"

\* a rejected await that nothing catches: the call rejects with it
Throw(e) == /\ result' = "threw"
            /\ error' = e
            /\ pc' = "done"

Return == /\ result' = "returned"
          /\ error' = Undefined
          /\ pc' = "done"

\* a stage of init hands over to the next one; called alone, it returns
Continue(next) ==
  IF op = "init"
  THEN /\ pc' = next
       /\ UNCHANGED << result, error >>
  ELSE Return

\* the state a new call starts from
Begin(method, project, first) ==
  /\ Idle
  /\ op' = method
  /\ pc' = first
  /\ projectId' = project
  /\ idx' = 1
  /\ result' = "running"
  /\ error' = Undefined
  /\ calls' = << >>
  /\ warned' = FALSE
  /\ storageAtCall' = storage
  /\ UNCHANGED << storage, cvars >>

Locals(min, max, persons, data, saved) ==
  /\ minArg' = min
  /\ maxArg' = max
  /\ number' = 0
  /\ randomVirtualPersons' = << >>
  /\ virtualPersons' = persons
  /\ personsData' = data
  /\ createdPersons' = << >>
  /\ savedPersons' = saved

(***************************************************************************)
(* The calls a caller makes.  init is the entry point; the stages are      *)
(* public methods of the class and can be called on their own.             *)
(***************************************************************************)
\* new VirtualPersons(project, settings).init(min, max)
CallInit ==
  \E project \in Projects, mm \in MinMaxPairs :
    /\ Begin("init", project, "getRandomVirtualPersons")
    /\ Locals(mm[1], mm[2], << >>, << >>, << >>)

\* resolvePersonsData(persons): names, or objects that carry their data.
\* The project of the instance takes no part in this stage.
CallResolvePersonsData ==
  \E persons \in CandidateLists :
    /\ Begin("resolvePersonsData", AnyProject, "resolvePersonsData")
    /\ Locals(0, 0, persons, << >>, << >>)

\* savePersonsData(personsData): resolved data, or a record already stored
CallSavePersonsData ==
  \E project \in Projects,
     data \in SeqUpTo({ Resolved(n) : n \in Names }
                        \cup { storage[k] : k \in DOMAIN storage \cap {1} }, MaxList) :
    /\ Begin("savePersonsData", project, "savePersonsData")
    /\ Locals(0, 0, << >>, data, << >>)

\* resolvePersonImages(personsData): stored records, each at most once.
\* The project of the instance takes no part in this stage.
CallResolvePersonImages ==
  \E saved \in SeqUpTo(Range(storage), MaxList) :
    /\ \A j, k \in DOMAIN saved : saved[j].id = saved[k].id => j = k
    /\ Begin("resolvePersonImages", AnyProject, "resolvePersonImages")
    /\ Locals(0, 0, << >>, << >>, saved)

(***************************************************************************)
(* getRandomVirtualPersons (lines 285-295).                                *)
(***************************************************************************)
getRandomVirtualPersons ==
  /\ pc = "getRandomVirtualPersons"
  /\ \E r \in RandomDraws : number' = RandomNumber(minArg, maxArg, r)
  /\ \/ /\ calls' = Append(calls, Call("names", NoName, 0, Undefined, FALSE))
        /\ Throw("AdapterError")
        /\ UNCHANGED randomVirtualPersons
     \/ \E names \in NameLists :
          /\ calls' = Append(calls, Call("names", NoName, 0, Undefined, TRUE))
          /\ randomVirtualPersons' = names
          /\ pc' = "filterExistingPersons"
          /\ UNCHANGED << result, error >>
  /\ UNCHANGED << storage, storageAtCall, op, projectId, minArg, maxArg,
                  virtualPersons, personsData, createdPersons, savedPersons,
                  idx, warned, cvars >>

(***************************************************************************)
(* filterExistingPersons (lines 315-329), the rest of getVirtualPersons    *)
(* (lines 264-268) and init's test of its result (lines 244-246).          *)
(***************************************************************************)
\* a filter that removes no candidate
NoFilter(records, persons) == persons

\* filterExistingPersons (lines 315-329)

filterExistingPersons(records, persons) ==
  LET encodedNames == { encodeName(persons[k]) : k \in DOMAIN persons }
      existingPersons == find(records, encodedNames)
      existingPersonNames ==
        { existingPersons[k].name : k \in DOMAIN existingPersons }
  IN  SelectSeq(persons, LAMBDA person : person \notin existingPersonNames)

\* !virtualPersons: an array, even an empty one, is truthy
Falsy(array) == FALSE

RECURSIVE AsCandidates(_)
AsCandidates(names) ==
  IF names = << >> THEN << >>
  ELSE << NameOnly(Head(names)) >> \o AsCandidates(Tail(names))

getVirtualPersons ==
  /\ pc = "filterExistingPersons"
  /\ \/ /\ calls' = Append(calls, Call("find", NoName, 0, Undefined, FALSE))
        /\ Throw("AdapterError")
        /\ UNCHANGED << virtualPersons, warned >>
     \/ LET filteredPersons == filterExistingPersons(storage, randomVirtualPersons)
        IN  /\ calls' = Append(calls, Call("find", NoName, 0, Undefined, TRUE))
            /\ warned' = (Len(filteredPersons) < minArg)
            /\ virtualPersons' = AsCandidates(filteredPersons)
            /\ IF Falsy(filteredPersons)
               THEN Return
               ELSE /\ pc' = "resolvePersonsData"
                    /\ UNCHANGED << result, error >>
  /\ number' = 0
  /\ UNCHANGED << storage, storageAtCall, op, projectId, minArg, maxArg,
                  randomVirtualPersons, personsData, createdPersons,
                  savedPersons, idx, cvars >>

(***************************************************************************)
(* resolvePersonsData (lines 350-370).                                     *)
(***************************************************************************)
\* whether obj.method is defined: the text adapter's answer is the JSON
\* object { biography, status }
HasMethod(obj, method) == method \in DOMAIN obj

\* the resolved record appended to the list personsData
PushesOntoList(list, personData, person) ==
  [ threw |-> FALSE,
    list  |-> Append(list, Person(person.name, personData.biography,
                                  personData.status)) ]

\* line 363, personData.push({ name, biography, status }): personData is the
\* adapter's answer, not the list personsData; the list is left as it is
PushResolved(list, personData, person) ==
  IF HasMethod(personData, "push")
  THEN [ threw |-> FALSE, list |-> list ]
  ELSE [ threw |-> TRUE, list |-> list ]

resolvePersonsData ==
  /\ pc = "resolvePersonsData"
  /\ idx <= Len(virtualPersons)
  /\ LET person == ForOf(virtualPersons, idx)
     IN  \/ /\ Truthy(person.biography) /\ Truthy(person.status)
            /\ personsData' = Append(personsData, person)
            /\ idx' = idx + 1
            /\ UNCHANGED << pc, result, error, calls >>
         \/ /\ ~(Truthy(person.biography) /\ Truthy(person.status))
            /\ \/ /\ calls' = Append(calls, Call("biography", person.name, 0,
                                                 Undefined, FALSE))
                  /\ Throw("AdapterError")
                  /\ UNCHANGED << personsData, idx >>
               \/ \E personData \in Biographies :
                    LET pushed == PushResolved(personsData, personData, person)
                    IN  /\ calls' = Append(calls, Call("biography", person.name, 0,
                                                       personData.biography, TRUE))
                        /\ personsData' = pushed.list
                        /\ IF pushed.threw
                           THEN /\ Throw("TypeError")
                                /\ UNCHANGED idx
                           ELSE /\ idx' = idx + 1
                                /\ UNCHANGED << pc, result, error >>
  /\ UNCHANGED << storage, storageAtCall, op, projectId, minArg, maxArg,
                  number, randomVirtualPersons, virtualPersons,
                  createdPersons, savedPersons, warned, cvars >>

resolvePersonsDataReturn ==
  /\ pc = "resolvePersonsData"
  /\ idx > Len(virtualPersons)
  /\ Continue("savePersonsData")
  /\ idx' = 1
  /\ UNCHANGED << storage, storageAtCall, op, projectId, minArg, maxArg,
                  number, randomVirtualPersons, virtualPersons, personsData,
                  createdPersons, savedPersons, calls, warned, cvars >>

(***************************************************************************)
(* savePersonsData (lines 459-477).                                        *)
(***************************************************************************)
savePersonsData ==
  /\ pc = "savePersonsData"
  /\ idx <= Len(personsData)
  /\ LET personData == ForOf(personsData, idx)
     IN  \/ /\ personData.id # 0
            /\ createdPersons' = Append(createdPersons, personData)
            /\ idx' = idx + 1
            /\ UNCHANGED << storage, pc, result, error, calls >>
         \/ /\ personData.id = 0
            /\ \/ /\ calls' = Append(calls, Call("create", personData.name, 0,
                                                 Undefined, FALSE))
                  /\ Throw("AdapterError")
                  /\ UNCHANGED << storage, createdPersons, idx >>
               \/ /\ Len(storage) < MaxRecords
                  /\ calls' = Append(calls, Call("create", personData.name,
                                                 Len(storage) + 1, Undefined, TRUE))
                  /\ LET nameEncoded == encodeName(personData.name)
                         savedPerson ==
                           create(storage, [ personData EXCEPT
                                               !.nameEncoded = nameEncoded,
                                               !.projectId = projectId ])
                     IN  /\ storage' = Append(storage, savedPerson)
                         /\ createdPersons' = Append(createdPersons, savedPerson)
                  /\ idx' = idx + 1
                  /\ UNCHANGED << pc, result, error >>
  /\ UNCHANGED << storageAtCall, op, projectId, minArg, maxArg, number,
                  randomVirtualPersons, virtualPersons, personsData,
                  savedPersons, warned, cvars >>

savePersonsDataReturn ==
  /\ pc = "savePersonsData"
  /\ idx > Len(personsData)
  /\ Continue("resolvePersonImages")
  /\ savedPersons' = IF op = "init" THEN createdPersons ELSE savedPersons
  /\ idx' = 1
  /\ UNCHANGED << storage, storageAtCall, op, projectId, minArg, maxArg,
                  number, randomVirtualPersons, virtualPersons, personsData,
                  createdPersons, calls, warned, cvars >>

(***************************************************************************)
(* resolvePersonImages (lines 390-405) and generateHeadshot (424-438).     *)
(***************************************************************************)
\* a record that has its headshot is skipped
resolvePersonImagesSkip ==
  /\ pc = "resolvePersonImages"
  /\ idx <= Len(savedPersons)
  /\ Truthy(ForOf(savedPersons, idx).headshot)
  /\ idx' = idx + 1
  /\ UNCHANGED << storage, storageAtCall, op, pc, projectId, minArg, maxArg,
                  number, randomVirtualPersons, virtualPersons, personsData,
                  createdPersons, savedPersons, result, error, calls, warned,
                  cvars >>

\* a test of the URL that never finds it missing
NeverReturnsNothing(imageUrl) == FALSE

\* line 433, if (!imageUrl): no upload, generateHeadshot returns undefined
ReturnsNothing(imageUrl) == ~Truthy(imageUrl)

\* const headshot = await this.generateHeadshot(personData.name);
\* if (headshot) personData.headshot = headshot
generateHeadshot ==
  /\ pc = "resolvePersonImages"
  /\ idx <= Len(savedPersons)
  /\ ~Truthy(ForOf(savedPersons, idx).headshot)
  /\ LET personData == ForOf(savedPersons, idx)
         getPicture(imageUrl, ok) ==
           Call("image", personData.name, personData.id, imageUrl, ok)
         upload(imageUrl, ok) ==
           Call("upload", personData.name, personData.id, imageUrl, ok)
     IN  \/ /\ calls' = Append(calls, getPicture(Undefined, FALSE))
            /\ Throw("AdapterError")
            /\ UNCHANGED savedPersons
         \/ \E imageUrl \in {Undefined, RemoteUrl} :
              IF ReturnsNothing(imageUrl)
              THEN /\ calls' = Append(calls, getPicture(imageUrl, TRUE))
                   /\ pc' = "patch"
                   /\ UNCHANGED << savedPersons, result, error >>
              ELSE \/ /\ calls' = calls \o << getPicture(imageUrl, TRUE),
                                              upload(imageUrl, FALSE) >>
                      /\ Throw("AdapterError")
                      /\ UNCHANGED savedPersons
                   \/ /\ calls' = calls \o << getPicture(imageUrl, TRUE),
                                              upload(imageUrl, TRUE) >>
                      /\ LET headshot == uploadImageStorageFromUrl(imageUrl)
                         IN  savedPersons' =
                               IF Truthy(headshot)
                               THEN [ savedPersons EXCEPT ![idx].headshot = headshot ]
                               ELSE savedPersons
                      /\ pc' = "patch"
                      /\ UNCHANGED << result, error >>
  /\ UNCHANGED << storage, storageAtCall, op, projectId, minArg, maxArg,
                  number, randomVirtualPersons, virtualPersons, personsData,
                  createdPersons, idx, warned, cvars >>

\* await VirtualPersonsService.patch(personData._id, personData)
patchPerson ==
  /\ pc = "patch"
  /\ LET personData == savedPersons[idx]
         call(ok) == Call("patch", personData.name, personData.id,
                          personData.headshot, ok)
     IN  \/ /\ calls' = Append(calls, call(FALSE))
            /\ Throw("AdapterError")
            /\ UNCHANGED storage
         \/ /\ calls' = Append(calls, call(TRUE))
            /\ storage' = patch(storage, personData.id, personData)
            /\ pc' = "delay"
            /\ UNCHANGED << result, error >>
  /\ UNCHANGED << storageAtCall, op, projectId, minArg, maxArg, number,
                  randomVirtualPersons, virtualPersons, personsData,
                  createdPersons, savedPersons, idx, warned, cvars >>

\* await Promise.delay(randomDelay)
delay ==
  /\ pc = "delay"
  /\ calls' = Append(calls, Call("delay", savedPersons[idx].name, savedPersons[idx].id,
                                 Undefined, TRUE))
  /\ idx' = idx + 1
  /\ pc' = "resolvePersonImages"
  /\ UNCHANGED << storage, storageAtCall, op, projectId, minArg, maxArg,
                  number, randomVirtualPersons, virtualPersons, personsData,
                  createdPersons, savedPersons, result, error, warned,
                  cvars >>

resolvePersonImagesReturn ==
  /\ pc = "resolvePersonImages"
  /\ idx > Len(savedPersons)
  /\ Return
  /\ UNCHANGED << storage, storageAtCall, op, projectId, minArg, maxArg,
                  number, randomVirtualPersons, virtualPersons, personsData,
                  createdPersons, savedPersons, idx, calls, warned, cvars >>

(***************************************************************************)
(* The ImageCard component (lines 1-147).  The parent owns the card prop;  *)
(* on a 'change' event it may write the event's selections back into it.   *)
(***************************************************************************)
\* the backends of the radio group (the classes styled at lines 186-196)
Services == {"midjourney", "stable_diffusion_xl", "dalle_3"}
Params == {"params1", "params2"}
Headings == {"heading1", "heading2"}

\* the selections a 'change' event carries
Selections(name, params, heading) ==
  [ name |-> name, params |-> params, heading |-> heading ]
\* the card prop, as selections
Card == Selections(cardName, cardParams, cardHeading)

\* currentServiceName's setter (lines 93-99)
SetCurrentServiceName(card, newServiceName) ==
  Selections(newServiceName, imageParams, card.heading)

\* generateImageByChange (lines 135-141): this.currentServiceName is the
\* getter of line 91, the name in the card prop
generateImageByChange(card) ==
  Selections(card.name, imageParams, card.heading)

\* the parent's handler of one event
ParentHandles(card, event, writesBack) == IF writesBack THEN event ELSE card

\* The user picks a radio.  v-radio-group emits one 'change'; the template
\* (line 22) has two listeners on it, the v-model callback and
\* generateImageByChange, and the framework runs both, in its own order.
SelectService ==
  \E newServiceName \in Services \ {cardName}, writesBack \in BOOLEAN :
    /\ selected' = newServiceName
    /\ \/ LET first == SetCurrentServiceName(Card, newServiceName)
              card1 == ParentHandles(Card, first, writesBack)
              second == generateImageByChange(card1)
              card2 == ParentHandles(card1, second, writesBack)
          IN  /\ events' = << first, second >>
              /\ cardName' = card2.name
              /\ cardParams' = card2.params
              /\ cardHeading' = card2.heading
       \/ LET first == generateImageByChange(Card)
              card1 == ParentHandles(Card, first, writesBack)
              second == SetCurrentServiceName(card1, newServiceName)
              card2 == ParentHandles(card1, second, writesBack)
          IN  /\ events' = << first, second >>
              /\ cardName' = card2.name
              /\ cardParams' = card2.params
              /\ cardHeading' = card2.heading
    /\ UNCHANGED << imageParams, pvars >>

\* The user edits the parameters in service-row: the imageParams watcher
\* (lines 108-117) emits
ChangeImageParams ==
  \E newValue \in Params \ {imageParams}, writesBack \in BOOLEAN :
    LET event == Selections(cardName, newValue, cardHeading)
        card1 == ParentHandles(Card, event, writesBack)
    IN  /\ imageParams' = newValue
        /\ events' = << event >>
        /\ cardName' = card1.name
        /\ cardParams' = card1.params
        /\ cardHeading' = card1.heading
        /\ selected' = "none"
        /\ UNCHANGED pvars

\* headingChange (lines 123-125) through emitChange (lines 132-134)
headingChange ==
  \E heading \in Headings \ {cardHeading}, writesBack \in BOOLEAN :
    LET event == Selections(cardName, cardParams, heading)
        card1 == ParentHandles(Card, event, writesBack)
    IN  /\ events' = << event >>
        /\ cardName' = card1.name
        /\ cardParams' = card1.params
        /\ cardHeading' = card1.heading
        /\ selected' = "none"
        /\ UNCHANGED << imageParams, pvars >>

\* The promise of the call has settled and the caller has its outcome; the
\* instance is dropped.  The records of the persistence adapter stay.
Settle ==
  /\ pc = "done"
  /\ pc' = "idle"
  /\ op' = "none"
  /\ idx' = 1
  /\ result' = "returned"
  /\ error' = Undefined
  /\ calls' = << >>
  /\ warned' = FALSE
  /\ Locals(0, 0, << >>, << >>, << >>)
  /\ storageAtCall' = storage
  /\ projectId' = 0
  /\ UNCHANGED << storage, cvars >>

(***************************************************************************)
(* Specifications.                                                         *)
(***************************************************************************)
Init ==
  /\ storage = << >>
  /\ storageAtCall = << >>
  /\ op = "none"
  /\ pc = "idle"
  /\ projectId = 0
  /\ minArg = 0
  /\ maxArg = 0
  /\ number = 0
  /\ randomVirtualPersons = << >>
  /\ virtualPersons = << >>
  /\ personsData = << >>
  /\ createdPersons = << >>
  /\ savedPersons = << >>
  /\ idx = 1
  /\ result = "returned"
  /\ error = Undefined
  /\ calls = << >>
  /\ warned = FALSE
  /\ cardName = "midjourney"
  /\ cardParams = "params1"
  /\ cardHeading = "heading1"
  /\ imageParams = cardParams
  /\ selected = "none"
  /\ events = << >>

Next ==
  \/ CallInit
  \/ CallResolvePersonsData
  \/ CallSavePersonsData
  \/ CallResolvePersonImages
  \/ getRandomVirtualPersons
  \/ getVirtualPersons
  \/ resolvePersonsData
  \/ resolvePersonsDataReturn
  \/ savePersonsData
  \/ savePersonsDataReturn
  \/ resolvePersonImagesSkip
  \/ generateHeadshot
  \/ patchPerson
  \/ delay
  \/ resolvePersonImagesReturn
  \/ Settle

\* the pipeline
Spec == Init /\ [][Next]_vars

NextCard ==
  \/ SelectService
  \/ ChangeImageParams
  \/ headingChange

\* the ImageCard component
SpecCard == Init /\ [][NextCard]_vars

(***************************************************************************)
(* The adapter calls of the running call.                                  *)
(***************************************************************************)
CallsOf(api) == SelectSeq(calls, LAMBDA c : c.api = api)
Count(api) == Len(CallsOf(api))
AdapterFailed == \E k \in DOMAIN calls : calls[k].outcome = "threw"
Failed(api) == \E k \in DOMAIN calls : calls[k].api = api /\ calls[k].outcome = "threw"
Answered(api) == \E k \in DOMAIN calls : calls[k].api = api /\ calls[k].outcome = "returned"
\* the place of the record with this _id in resolvePersonImages' list
Place(id) == CHOOSE j \in DOMAIN savedPersons : savedPersons[j].id = id
\* some record has this encoded name, in any project
Exists(records, name) ==
  \E k \in DOMAIN records : records[k].nameEncoded = encodeName(name)
\* a record of this project has this encoded name
Stored(records, project, name) ==
  \E k \in DOMAIN records : /\ records[k].projectId = project
                            /\ records[k].nameEncoded = encodeName(name)
\* no two records of one project share an encoded name
NoDuplicates(records) ==
  \A j, k \in DOMAIN records :
    ( records[j].projectId = records[k].projectId
      /\ records[j].nameEncoded = records[k].nameEncoded ) => j = k
\* list b starts with list a, compared by f
Starts(a, b, f(_)) ==
  /\ Len(a) <= Len(b)
  /\ \A k \in DOMAIN a : f(a[k]) = f(b[k])
ItsName(x) == x.name
ItsId(x) == x.id

(***************************************************************************)
(* C1  A run of init in which the names request returns n >= 1 names, none *)
(* of them in storage, and no adapter call fails, makes one names request, *)
(* n biography requests, n create calls and n image requests, each         *)
(* followed by a delay, and returns normally.                              *)
(***************************************************************************)
C1_OneCallPerNewName ==
  ( /\ op = "init" /\ pc = "done"
    /\ Len(randomVirtualPersons) >= 1
    /\ \A k \in DOMAIN randomVirtualPersons :
         ~Exists(storageAtCall, randomVirtualPersons[k])
    /\ ~AdapterFailed )
  => /\ result = "returned"
     /\ Count("names") = 1
     /\ Count("biography") = Len(randomVirtualPersons)
     /\ Count("create") = Len(randomVirtualPersons)
     /\ Count("image") = Len(randomVirtualPersons)
     /\ Count("delay") = Len(randomVirtualPersons)
     /\ \A k \in DOMAIN calls :
          calls[k].api = "image" =>
            \E j \in DOMAIN calls :
              j > k /\ calls[j].api = "delay" /\ calls[j].id = calls[k].id

AllExist ==
  \A k \in DOMAIN randomVirtualPersons : Exists(storageAtCall, randomVirtualPersons[k])

(***************************************************************************)
(* C3  When every name the names request returned is in storage already,   *)
(* init makes no adapter call after the find of the deduplication and      *)
(* returns normally.                                                       *)
(***************************************************************************)
C3_NothingAfterFind ==
  ( op = "init" /\ Answered("find") /\ AllExist )
  => /\ Len(calls) = 2
     /\ calls[2].api = "find"
     /\ result # "threw"
     /\ pc = "done" => result = "returned"
     /\ pc # "done" => ENABLED ( \/ resolvePersonsDataReturn
                                \/ savePersonsDataReturn
                                \/ resolvePersonImagesReturn )

C3_Witness ==
  /\ op = "init" /\ pc = "done" /\ result = "returned"
  /\ Len(randomVirtualPersons) = 2
  /\ randomVirtualPersons[1] # randomVirtualPersons[2]
  /\ Answered("find") /\ AllExist

\* the loop has gone from place i to the later place j, and the records
\* between them carry a headshot
Skipped(i, j) ==
  /\ i < j
  /\ \A m \in (i + 1)..(j - 1) : Truthy(savedPersons[m].headshot)

(***************************************************************************)
(* C4  When the image adapter returns no URL for a record, no upload is    *)
(* made for it, the next call is the patch of that record with no headshot *)
(* set, and once the patch has returned the delay follows and the loop     *)
(* goes on to the next record without an error.                            *)
(***************************************************************************)
C4_NoUrlPatchedWithoutHeadshot ==
  \A k \in DOMAIN calls :
    ( calls[k].api = "image" /\ calls[k].outcome = "returned" /\ ~Truthy(calls[k].value) )
    => /\ \A j \in DOMAIN calls : calls[j].api = "upload" => calls[j].id # calls[k].id
       /\ k = Len(calls) => ( pc = "patch" /\ result = "running" )
       /\ k < Len(calls) => /\ calls[k + 1].api = "patch"
                            /\ calls[k + 1].id = calls[k].id
                            /\ ~Truthy(calls[k + 1].value)
       /\ ( k < Len(calls) /\ calls[k + 1].outcome = "returned" )
          => /\ ~Truthy(storage[calls[k].id].headshot)
             /\ k + 1 = Len(calls) => ( pc = "delay" /\ result = "running" )
             /\ k + 2 <= Len(calls) => calls[k + 2].api = "delay"
             /\ k + 2 = Len(calls) =>
                  /\ \/ pc = "resolvePersonImages" /\ result = "running"
                     \/ pc = "done" /\ result = "returned"
                  /\ Skipped(Place(calls[k].id), idx)
             /\ k + 3 <= Len(calls) =>
                  /\ calls[k + 3].api = "image"
                  /\ Skipped(Place(calls[k].id), Place(calls[k + 3].id))

\* the first of two records got no URL, was patched, and the second record
\* has had its image request
C4_Witness ==
  /\ op = "resolvePersonImages"
  /\ Len(savedPersons) = 2
  /\ Len(calls) >= 4
  /\ calls[1].api = "image" /\ calls[1].outcome = "returned" /\ ~Truthy(calls[1].value)
  /\ calls[1].id = savedPersons[1].id
  /\ calls[2].api = "patch" /\ calls[2].outcome = "returned"
  /\ calls[4].api = "image" /\ calls[4].id = savedPersons[2].id

(***************************************************************************)
(* C5  A failure of the image request, the upload or the patch of one      *)
(* record does not abort resolvePersonImages: it returns normally and      *)
(* every record that lacks a headshot has had its image request.           *)
(***************************************************************************)
C5_HeadshotStepIsolated ==
  ( op = "resolvePersonImages" /\ pc = "done" )
  => /\ result = "returned"
     /\ \A j \in DOMAIN savedPersons :
          ~Truthy(savedPersons[j].headshot) =>
            \E k \in DOMAIN calls :
              calls[k].api = "image" /\ calls[k].id = savedPersons[j].id

(***************************************************************************)
(* C6  When the names request or a biography request of a run of init      *)
(* fails, init rejects with that error, the failed call is the last call   *)
(* of the run, and storage is as it was when the run began.                *)
(***************************************************************************)
C6_TextFailurePropagates ==
  ( op = "init" /\ (Failed("names") \/ Failed("biography")) )
  => /\ pc = "done" /\ result = "threw" /\ error = "AdapterError"
     /\ calls[Len(calls)].api \in {"names", "biography"}
     /\ calls[Len(calls)].outcome = "threw"
     /\ storage = storageAtCall
     /\ Count("create") = 0 /\ Count("patch") = 0

\* a biography request failed in a run over a non-empty storage
C6_Witness ==
  /\ op = "init" /\ pc = "done"
  /\ Failed("biography")
  /\ Len(storage) >= 1

C8_CountInRange ==
  ( op = "init" /\ Len(calls) = 1 ) => ( minArg <= number /\ number < maxArg )

(***************************************************************************)
(* C9  One pick of a radio emits one 'change' event, and it carries the    *)
(* picked backend with the current image parameters.                       *)
(***************************************************************************)
C9_SingleChangeEvent ==
  selected # "none"
  => /\ Len(events) = 1
     /\ events[1].name = selected
     /\ events[1].params = imageParams

(***************************************************************************)
(* C10  resolvePersonsData, given names, makes one biography request per   *)
(* name and returns one record per name, in order, with the name and the   *)
(* biography and status of its own answer.                                 *)
(***************************************************************************)
C10_OneRecordPerCandidate ==
  ( /\ op = "resolvePersonsData" /\ pc = "done"
    /\ \A k \in DOMAIN virtualPersons : virtualPersons[k] = NameOnly(virtualPersons[k].name)
    /\ ~AdapterFailed )
  => /\ result = "returned"
     /\ Count("biography") = Len(virtualPersons)
     /\ Len(personsData) = Len(virtualPersons)
     /\ \A k \in DOMAIN personsData :
          /\ personsData[k].name = virtualPersons[k].name
          /\ CallsOf("biography")[k].name = virtualPersons[k].name
          /\ [ biography |-> personsData[k].biography,
               status |-> personsData[k].status ] \in Biographies
          /\ personsData[k].biography = CallsOf("biography")[k].value

(***************************************************************************)
(* C11  Deduplication looks only at the records of the pipeline's own      *)
(* project: a name of the response that no record of this project has      *)
(* survives filterExistingPersons, also when a record of another project   *)
(* has it.                                                                 *)
(***************************************************************************)
C11_DedupProjectScoped ==
  ( op = "init" /\ Answered("find") )
  => \A k \in DOMAIN randomVirtualPersons :
       ~Stored(storageAtCall, projectId, randomVirtualPersons[k])
       => NameOnly(randomVirtualPersons[k]) \in Range(virtualPersons)

\* the calls of this kind made for the record with this _id
CallsFor(api, id) ==
  Len(SelectSeq(calls, LAMBDA c : c.api = api /\ c.id = id))
\* the record at place j of resolvePersonImages' list, as it was passed in
InputOf(j) == storageAtCall[savedPersons[j].id]

\* at every point of a run of resolvePersonImages: no record has two image
\* requests, two patches or two delays, a record passed in with a headshot
\* has none and is stored as it was, and a run that returns has made one of
\* each for every record passed in without a headshot
AtMostOneAttempt ==
  op = "resolvePersonImages"
  => \A j \in DOMAIN savedPersons :
       LET id == savedPersons[j].id
       IN  /\ CallsFor("image", id) <= 1
           /\ CallsFor("patch", id) <= 1
           /\ CallsFor("delay", id) <= 1
           /\ Truthy(InputOf(j).headshot)
              => /\ CallsFor("image", id) + CallsFor("patch", id)
                      + CallsFor("delay", id) = 0
                 /\ storage[id] = InputOf(j)
           /\ ( ~Truthy(InputOf(j).headshot) /\ result = "returned" )
              => /\ CallsFor("image", id) = 1
                 /\ CallsFor("patch", id) = 1
                 /\ CallsFor("delay", id) = 1

(***************************************************************************)
(* C12  A finished run of resolvePersonImages has made one image request,  *)
(* one patch and one delay for every record passed in without a headshot,  *)
(* and no image request, patch or delay for a record passed in with one,   *)
(* which is stored as it was.                                              *)
(***************************************************************************)
C12_OneAttemptPerRecord ==
  ( op = "resolvePersonImages" /\ pc = "done" )
  => \A j \in DOMAIN savedPersons :
       LET id == savedPersons[j].id
       IN  IF Truthy(InputOf(j).headshot)
           THEN /\ CallsFor("image", id) = 0
                /\ CallsFor("patch", id) = 0
                /\ CallsFor("delay", id) = 0
                /\ storage[id] = InputOf(j)
           ELSE /\ CallsFor("image", id) = 1
                /\ CallsFor("patch", id) = 1
                /\ CallsFor("delay", id) = 1
=============================================================================
